---- MODULE Spec2Model ----
(***************************************************************************)
(* State-machine model of the PriceChart component                         *)
(* (src/src/components/PriceChart.js): the interval state, the baseline    *)
(* query (fetchPreviousClose), the paginated historical fetch              *)
(* (fetchHistoricalData), the series build, the kline WebSocket and its    *)
(* live merge (ws.onmessage / setChartData reducer).                       *)
(*                                                                         *)
(* Conventions.                                                            *)
(*  - Timestamps are whole seconds of local time counted from              *)
(*    2024-01-01 00:00 (the source uses epoch milliseconds; every          *)
(*    timestamp the model handles is a whole second, and the model's       *)
(*    local zone has no offset).                                           *)
(*  - JavaScript arrays are sequences, so an index i of the source is      *)
(*    i + 1 here and the "not found" result -1 is 0.                       *)
(*  - JavaScript null is Null, NaN is NaN; every real price is > 0.        *)
(*  - A state update, the render it causes and the effects whose           *)
(*    dependencies changed form one step.                                  *)
(*  - Date.now() is the same instant for every request of a behaviour;     *)
(*    the stream alone runs on, to the first minute of the next day.       *)
(*  - Spec follows the whole component on small pages; SpecFetch follows   *)
(*    one historical fetch page by page on full pages.                     *)
(***************************************************************************)
EXTENDS Integers, Sequences, FiniteSets, TLC

(***************************************************************************)
(* Bounds of the model                                                     *)
(***************************************************************************)
\* events of the environment in one behaviour: interval selections by the
\* user, REST requests settled by the exchange, messages delivered by the stream
MaxEvents == 4

(***************************************************************************)
(* Values                                                                  *)
(***************************************************************************)
Null == -1
NaN == -2

Intervals == {"1m", "1w", "1M", "3M", "YTD", "1Y"}

Green == "rgba(0, 128, 0, 1)"
Red == "rgba(255, 0, 0, 1)"
Gray == "rgba(128, 128, 128, 1)"
Transparent == "transparent"
\* the dataset of useState's initial chartData sets no borderColor
Unset == "unset"

\* decimal strings the exchange sends as close prices
PriceStrings == {"90.00", "110.00"}
\* the decimal string the exchange sends as the close of the oldest row of
\* the baseline query of interval iv: one value for the daily rows of Today's
\* query, another for the rows of the other intervals' windows
BaselineString(iv) == IF iv = "1m" THEN "100.00" ELSE "95.00"

parseFloat(s) ==
  CASE s = "90.00" -> 90
    [] s = "95.00" -> 95
    [] s = "100.00" -> 100
    [] s = "110.00" -> 110
    [] s = "2.00" -> 2
    [] OTHER -> NaN

\* JavaScript truthiness of a number, null or NaN
Truthy(v) == v # Null /\ v # NaN /\ v # 0

\* a > b of JavaScript on numbers, null (converted to 0) and NaN (never greater)
ToNumber(v) == IF v = Null THEN 0 ELSE v
JsGreater(a, b) == a # NaN /\ b # NaN /\ ToNumber(a) > ToNumber(b)

(***************************************************************************)
(* Date: local calendar fields of a timestamp                              *)
(***************************************************************************)
SecondsPerDay == 24 * 60 * 60
EpochYear == 2024

IsLeap(y) == (y % 4 = 0 /\ y % 100 # 0) \/ y % 400 = 0
DaysInYear(y) == IF IsLeap(y) THEN 366 ELSE 365
DaysInMonth(y, m) ==
  IF m = 1 THEN (IF IsLeap(y) THEN 29 ELSE 28)
  ELSE IF m \in {3, 5, 8, 10} THEN 30 ELSE 31

RECURSIVE YearAndDay(_, _)
\* <<year, day of the year (0-based)>> of day number d counted from 1 January y
YearAndDay(y, d) ==
  IF d < DaysInYear(y) THEN <<y, d>> ELSE YearAndDay(y + 1, d - DaysInYear(y))

RECURSIVE MonthAndDate(_, _, _)
\* <<month (0-based), day of the month (1-based)>> of day d (0-based) of year y
MonthAndDate(y, m, d) ==
  IF d < DaysInMonth(y, m) THEN <<m, d + 1>>
  ELSE MonthAndDate(y, m + 1, d - DaysInMonth(y, m))

getFullYear(t) == YearAndDay(EpochYear, t \div SecondsPerDay)[1]
getMonth(t) ==
  LET yd == YearAndDay(EpochYear, t \div SecondsPerDay)
  IN  MonthAndDate(yd[1], 0, yd[2])[1]
getDate(t) ==
  LET yd == YearAndDay(EpochYear, t \div SecondsPerDay)
  IN  MonthAndDate(yd[1], 0, yd[2])[2]
getHours(t) == (t % SecondsPerDay) \div 3600
getMinutes(t) == (t % 3600) \div 60

\* new Date(y, 0, 1).getTime()
RECURSIVE YearStart(_)
YearStart(y) ==
  IF y = EpochYear THEN 0 ELSE YearStart(y - 1) + DaysInYear(y - 1) * SecondsPerDay

\* today.setHours(0, 0, 0, 0)
StartOfDay(t) == t - (t % SecondsPerDay)

\* n.toString().padStart(2, '0')
padStart2(n) == IF n < 10 THEN "0" \o ToString(n) ELSE ToString(n)

\* `${hh}:${mm}`
TimeLabel(hour, minute) == padStart2(hour) \o ":" \o padStart2(minute)

(***************************************************************************)
(* ClockWindow: getTimeConfig                                              *)
(***************************************************************************)
\* The end of Today's window, 23:59:59.999, is its whole second 23:59:59:
\* the cursor it is compared with is always a whole minute.
getTimeConfig(interval, now) ==
  CASE interval = "1m" ->
         [startTime |-> StartOfDay(now),
          endTime |-> StartOfDay(now) + 23 * 3600 + 59 * 60 + 59,
          apiInterval |-> "1m", intervalMs |-> 60]
    [] interval = "1w" ->
         [startTime |-> now - 7 * 24 * 60 * 60, endTime |-> now,
          apiInterval |-> "1h", intervalMs |-> 3600]
    [] interval = "1M" ->
         [startTime |-> now - 30 * 24 * 60 * 60, endTime |-> now,
          apiInterval |-> "4h", intervalMs |-> 14400]
    [] interval = "3M" ->
         [startTime |-> now - 90 * 24 * 60 * 60, endTime |-> now,
          apiInterval |-> "1d", intervalMs |-> 86400]
    [] interval = "YTD" ->
         [startTime |-> YearStart(getFullYear(now)), endTime |-> now,
          apiInterval |-> "1d", intervalMs |-> 86400]
    [] interval = "1Y" ->
         [startTime |-> now - 365 * 24 * 60 * 60, endTime |-> now,
          apiInterval |-> "1d", intervalMs |-> 86400]
    [] OTHER ->
         [startTime |-> StartOfDay(now), endTime |-> now,
          apiInterval |-> "1m", intervalMs |-> 60]

batchSize == 1000

Min(a, b) == IF a < b THEN a ELSE b

(***************************************************************************)
(* SeriesBuilder: labels and prices of fetchHistoricalData                 *)
(***************************************************************************)
HoursPerDay == 24
MinutesPerHour == 60

RECURSIVE FindIn(_, _, _, _, _)
\* data.find(kline => getHours = hour && getMinutes = minute) on lo..hi: the
\* index of the first such candle, 0 when there is none (the range is halved,
\* to keep the evaluation shallow on a full day of candles)
FindIn(data, lo, hi, hour, minute) ==
  IF lo > hi THEN 0
  ELSE IF lo = hi
  THEN (IF getHours(data[lo].t) = hour /\ getMinutes(data[lo].t) = minute
        THEN lo ELSE 0)
  ELSE LET mid == (lo + hi) \div 2
           lower == FindIn(data, lo, mid, hour, minute)
       IN  IF lower # 0 THEN lower ELSE FindIn(data, mid + 1, hi, hour, minute)

matchingKline(data, hour, minute) == FindIn(data, 1, Len(data), hour, minute)

\* the 24 x 60 grid of the '1m' branch, hour-major
TodayLabels ==
  [k \in 1..(HoursPerDay * MinutesPerHour) |->
     TimeLabel((k - 1) \div MinutesPerHour, (k - 1) % MinutesPerHour)]

\* TodayPrices that gives the k-th slot the k-th candle
TodayPricesByPosition(data) ==
  [k \in 1..(HoursPerDay * MinutesPerHour) |->
     IF k <= Len(data) THEN parseFloat(data[k].c) ELSE Null]

TodayPrices(data) ==
  [k \in 1..(HoursPerDay * MinutesPerHour) |->
     LET m == matchingKline(data, (k - 1) \div MinutesPerHour, (k - 1) % MinutesPerHour)
     IN  IF m # 0 THEN parseFloat(data[m].c) ELSE Null]

\* KlineLabel that writes the candle's time of day alone
KlineLabelTimeOnly(interval, t) == TimeLabel(getHours(t), getMinutes(t))

\* the label of one candle in the data.forEach branch
KlineLabel(interval, t) ==
  IF interval \in {"1w", "1M"}
  THEN padStart2(getMonth(t) + 1) \o "/" \o padStart2(getDate(t)) \o " "
         \o padStart2(getHours(t)) \o ":00"
  ELSE padStart2(getMonth(t) + 1) \o "/" \o padStart2(getDate(t))

\* BuildLabels with one label per candle for Today as well
BuildLabelsFromCandles(interval, data) ==
  [k \in 1..Len(data) |-> KlineLabel(interval, data[k].t)]

BuildLabels(interval, data) ==
  IF interval = "1m" THEN TodayLabels
  ELSE [k \in 1..Len(data) |-> KlineLabel(interval, data[k].t)]

\* BuildPrices with one price per candle for Today as well
BuildPricesFromCandles(interval, data) ==
  [k \in 1..Len(data) |-> parseFloat(data[k].c)]

\* BuildPrices that leaves the newest candle of the data.forEach branch out
BuildPricesOpenEnded(interval, data) ==
  IF interval = "1m" THEN
    [k \in 1..(HoursPerDay * MinutesPerHour) |->
       LET m == matchingKline(data, (k - 1) \div MinutesPerHour, (k - 1) % MinutesPerHour)
       IN  IF m # 0 THEN parseFloat(data[m].c) ELSE Null]
  ELSE [k \in 1..Len(data) |-> IF k = Len(data) THEN Null ELSE parseFloat(data[k].c)]

BuildPrices(interval, data) ==
  IF interval = "1m" THEN TodayPrices(data)
  ELSE [k \in 1..Len(data) |-> parseFloat(data[k].c)]

(***************************************************************************)
(* Presentation: the colour and marker closures of a dataset               *)
(***************************************************************************)
RECURSIVE LastNonNullIn(_, _, _)
\* the highest index of lo..hi whose price is not null, 0 when there is none
\* (the range is halved, to keep the evaluation shallow on the 1440 grid)
LastNonNullIn(prices, lo, hi) ==
  IF lo > hi THEN 0
  ELSE IF lo = hi THEN (IF prices[lo] # Null THEN lo ELSE 0)
  ELSE LET mid == (lo + hi) \div 2
           upper == LastNonNullIn(prices, mid + 1, hi)
       IN  IF upper # 0 THEN upper ELSE LastNonNullIn(prices, lo, mid)

\* prices.findLastIndex(price => price !== null)
findLastIndex(prices) == LastNonNullIn(prices, 1, Len(prices))

\* prices.filter(price => price !== null).pop(); undefined is not truthy, like Null
lastValidPrice(prices) ==
  IF findLastIndex(prices) = 0 THEN Null ELSE prices[findLastIndex(prices)]

\* borderColor of the initial build
BuildBorderColor(prices, previousClose) ==
  IF Truthy(lastValidPrice(prices)) /\ previousClose # Null
  THEN (IF JsGreater(lastValidPrice(prices), previousClose) THEN Green ELSE Red)
  ELSE Gray

\* borderColor of the live merge
LiveBorderColor(closePrice, previousClose) ==
  IF previousClose # Null
  THEN (IF JsGreater(closePrice, previousClose) THEN Green ELSE Red)
  ELSE Gray

\* pointBackgroundColor of the live merge at the merged index
LiveMarkerColor(closePrice, previousClose) ==
  IF JsGreater(closePrice, previousClose) THEN Green ELSE Red

\* pointRadius(context) of the dataset ds at dataIndex
pointRadius(ds, dataIndex) ==
  CASE ds.closures = "build" ->
         (IF dataIndex = findLastIndex(ds.data) THEN 6 ELSE 0)
    [] ds.closures = "live" ->
         (IF dataIndex = ds.timeIndex THEN 6 ELSE 0)
    [] OTHER -> 0

\* pointBackgroundColor(context) of the dataset ds at dataIndex
pointBackgroundColor(ds, dataIndex) ==
  CASE ds.closures = "build" ->
         (IF dataIndex = findLastIndex(ds.data) /\ ds.data[dataIndex] # Null
          THEN (IF Len(ds.data) > 0 /\ ds.previousClose # Null
                THEN (IF JsGreater(ds.data[dataIndex], ds.previousClose)
                      THEN Green ELSE Red)
                ELSE Gray)
          ELSE Transparent)
    [] ds.closures = "live" ->
         (IF dataIndex = ds.timeIndex
          THEN LiveMarkerColor(ds.closePrice, ds.previousClose)
          ELSE Transparent)
    [] OTHER -> Transparent

\* useState's initial chartData
InitialChartData ==
  [labels |-> <<>>, data |-> <<>>, closures |-> "none",
   previousClose |-> Null, timeIndex |-> 0, closePrice |-> Null,
   borderColor |-> Unset, reference |-> Null, builtFor |-> "none", builtBy |-> 0]

\* the object fetchHistoricalData passes to setChartData; request is the
\* fetch that built it (its interval and the previousClose of its render)
BuiltChartData(request, id) ==
  LET prices == BuildPrices(request.interval, request.allData)
  IN  [labels |-> BuildLabels(request.interval, request.allData),
       data |-> prices, closures |-> "build",
       previousClose |-> request.previousClose, timeIndex |-> 0, closePrice |-> Null,
       borderColor |-> BuildBorderColor(prices, request.previousClose),
       reference |-> request.previousClose,
       builtFor |-> request.interval, builtBy |-> id]

RECURSIVE FirstIndexIn(_, _, _, _)
\* the lowest index of lo..hi whose label is label, 0 when there is none
FirstIndexIn(labels, lo, hi, label) ==
  IF lo > hi THEN 0
  ELSE IF lo = hi THEN (IF labels[lo] = label THEN lo ELSE 0)
  ELSE LET mid == (lo + hi) \div 2
           lower == FirstIndexIn(labels, lo, mid, label)
       IN  IF lower # 0 THEN lower ELSE FirstIndexIn(labels, mid + 1, hi, label)

\* indexOf with a result that is one too high
indexOfOneOff(labels, label) ==
  IF FirstIndexIn(labels, 1, Len(labels), label) = 0 THEN 0
  ELSE IF FirstIndexIn(labels, 1, Len(labels), label) = Len(labels) THEN 1
  ELSE FirstIndexIn(labels, 1, Len(labels), label) + 1

\* labels.indexOf(timestamp)
indexOf(labels, label) == FirstIndexIn(labels, 1, Len(labels), label)

\* LiveMerge without "if (timeIndex === -1) return prev": an unmatched update
\* writes no element of the data but replaces the closures and the line colour
LiveMergeUnguarded(prev, kline, previousClose) ==
  LET closePrice == parseFloat(kline.c)
      timestamp == TimeLabel(getHours(kline.t), getMinutes(kline.t))
      timeIndex == indexOf(prev.labels, timestamp)
  IN  [prev EXCEPT !.data = IF timeIndex = 0 THEN prev.data
                            ELSE [prev.data EXCEPT ![timeIndex] = closePrice],
                   !.closures = "live",
                   !.previousClose = previousClose,
                   !.timeIndex = timeIndex,
                   !.closePrice = closePrice,
                   !.borderColor = LiveBorderColor(closePrice, previousClose),
                   !.reference = previousClose]

\* LiveMerge with "newData[timeIndex] += closePrice"
LiveMergeAccumulating(prev, kline, previousClose) ==
  LET closePrice == parseFloat(kline.c)
      timestamp == TimeLabel(getHours(kline.t), getMinutes(kline.t))
      timeIndex == indexOf(prev.labels, timestamp)
  IN  IF timeIndex = 0 THEN prev
      ELSE [prev EXCEPT !.data = [prev.data EXCEPT
                                    ![timeIndex] = ToNumber(@) + closePrice],
                        !.closures = "live",
                        !.previousClose = previousClose,
                        !.timeIndex = timeIndex,
                        !.closePrice = closePrice,
                        !.borderColor = LiveBorderColor(closePrice, previousClose),
                        !.reference = previousClose]

\* the reducer ws.onmessage passes to setChartData: prev is the chartData it
\* is applied to, kline the message's k, previousClose the value of the
\* render whose effect opened the socket
LiveMerge(prev, kline, previousClose) ==
  LET closePrice == parseFloat(kline.c)
      timestamp == TimeLabel(getHours(kline.t), getMinutes(kline.t))
      timeIndex == indexOf(prev.labels, timestamp)
  IN  IF timeIndex = 0 THEN prev
      ELSE [prev EXCEPT !.data = [prev.data EXCEPT ![timeIndex] = closePrice],
                        !.closures = "live",
                        !.previousClose = previousClose,
                        !.timeIndex = timeIndex,
                        !.closePrice = closePrice,
                        !.borderColor = LiveBorderColor(closePrice, previousClose),
                        !.reference = previousClose]

(***************************************************************************)
(* Inputs of the environment                                               *)
(***************************************************************************)
\* Date.now(): 2025-03-02 00:02:30
Instants == {(366 + 31 + 28 + 1) * SecondsPerDay + 2 * 60 + 30}

\* the intervals the user selects in the model: Today and one other
Selectable == {"1m", "1w", "YTD"}

\* the open time of the newest bucket of granularity ms at instant t
BucketTimes(t, ms) == {t - (t % ms)}

\* the open times of the buckets the stream reports from instant t on: the
\* minute of t and, for a chart left open, the first minute of the next day
StreamTimes(t) == {t - (t % 60), StartOfDay(t) + SecondsPerDay}

\* rows of the klines endpoint: t is row[0], the open time; c is row[4], the close
Klines(times) == [t : times, c : PriceStrings]

\* the pages the exchange may answer a klines request on [from, to] with:
\* no row, or one row of that range
Pages(times, from, to) ==
  {<<>>} \cup {<<r>> : r \in Klines({t \in times : from <= t /\ t <= to})}

\* the rows the exchange may answer the baseline query of interval iv with
\* (closes only), oldest first: none, one or two; the newest of two closes
\* at another price than the oldest
BaselineRows(iv) ==
  LET oldest == [c |-> BaselineString(iv)]
      newest == [c |-> "110.00"]
  IN  {<<>>, <<oldest>>, <<oldest, newest>>}

\* the k field of a kline stream message: t is the bucket's open time, c its close
LiveUpdates(t) == [t : StreamTimes(t), c : PriceStrings]

(***************************************************************************)
(* State                                                                   *)
(***************************************************************************)
VARIABLES
  phase,            \* "created" before the mount effects, "mounted", "unmounted"
  now,              \* the wall clock read by Date.now()
  interval,         \* useState('1m')
  previousClose,    \* useState(null)
  yesterdayClose,   \* useState(null)
  currentPrice,     \* useState(null)
  chartData,        \* useState({labels: [], datasets: [{data: []}]})
  baselineRequests, \* the calls of fetchPreviousClose, in starting order
  historyRequests,  \* the calls of fetchHistoricalData, in starting order
  sockets,          \* the ReconnectingWebSockets created, in creation order
  wsRef,            \* wsRef.current: an index of sockets, 0 for null
  cleanupWs,        \* the ws the WebSocket effect's pending cleanup closes, 0 for none
  baselineFor,      \* history: the interval of the query that set previousClose
  lastMessage,      \* history: the last message delivered, the index it matched
                    \* and the interval the Series it met was built for
  fetched,          \* history: the locals of the fetch that built the Series last
  isComponentReady, \* useState(false)
  priceChange24h,   \* useState(null)
  polls,            \* the calls of fetch24hStats and fetchFastPrice, in starting order
  timers,           \* the callbacks registered with the window's setInterval
  switches,         \* number of interval selections made
  messages,         \* number of stream messages delivered
  responses         \* number of REST requests settled

vars == <<phase, now, interval, previousClose, yesterdayClose, currentPrice,
          chartData, baselineRequests, historyRequests, sockets, wsRef,
          cleanupWs, baselineFor, lastMessage, fetched, switches, messages,
          responses, isComponentReady, priceChange24h, polls, timers>>

\* the state of the ready flag and of the pollers
pollerVars == <<isComponentReady, priceChange24h, polls, timers>>

NoMessage == [t |-> 0, c |-> "", timeIndex |-> 0, builtFor |-> "none"]

NoFetch ==
  [id |-> 0, rows |-> <<>>, startTime |-> 0, endTime |-> 0, intervalMs |-> 0,
   currentStartTime |-> 0, requests |-> 0]

Init ==
  /\ phase = "created"
  /\ now \in Instants
  /\ interval = "1m"
  /\ previousClose = Null
  /\ yesterdayClose = Null
  /\ currentPrice = Null
  /\ chartData = InitialChartData
  /\ baselineRequests = <<>>
  /\ historyRequests = <<>>
  /\ sockets = <<>>
  /\ wsRef = 0
  /\ cleanupWs = 0
  /\ baselineFor = "none"
  /\ lastMessage = NoMessage
  /\ fetched = NoFetch
  /\ switches = 0
  /\ messages = 0
  /\ responses = 0
  /\ isComponentReady = FALSE
  /\ priceChange24h = Null
  /\ polls = <<>>
  /\ timers = {}

(***************************************************************************)
(* Effects                                                                 *)
(***************************************************************************)
\* a close() that closes nothing
CloseSocketNoop(socks, id) == socks

\* ws.close()
CloseSocket(socks, id) ==
  IF id = 0 THEN socks ELSE [socks EXCEPT ![id].open = FALSE]

\* the WebSocket effect without "if (interval !== '1m') return"
WebSocketEffectAnyInterval(iv, pc) ==
  /\ sockets' = Append(CloseSocket(CloseSocket(sockets, cleanupWs), wsRef),
                       [open |-> TRUE, interval |-> iv, previousClose |-> pc])
  /\ wsRef' = Len(sockets) + 1
  /\ cleanupWs' = Len(sockets) + 1

\* the WebSocket effect with the dependencies [interval]: a render that only
\* changes previousClose does not run it
WebSocketEffectIntervalOnly(iv, pc) ==
  IF phase = "mounted" /\ iv = interval
  THEN UNCHANGED <<sockets, wsRef, cleanupWs>>
  ELSE IF iv # "1m"
  THEN /\ sockets' = CloseSocket(CloseSocket(sockets, cleanupWs), wsRef)
       /\ wsRef' = wsRef
       /\ cleanupWs' = 0
  ELSE /\ sockets' = Append(CloseSocket(CloseSocket(sockets, cleanupWs), wsRef),
                            [open |-> TRUE, interval |-> iv, previousClose |-> pc])
       /\ wsRef' = Len(sockets) + 1
       /\ cleanupWs' = Len(sockets) + 1

\* the WebSocket effect for the render with interval iv and previousClose pc:
\* the previous run's cleanup, then the body
WebSocketEffect(iv, pc) ==
  LET cleaned == CloseSocket(CloseSocket(sockets, cleanupWs), wsRef)
  IN  IF iv # "1m"
      THEN /\ sockets' = cleaned
           /\ wsRef' = wsRef
           /\ cleanupWs' = 0
      ELSE /\ sockets' = Append(cleaned, [open |-> TRUE, interval |-> iv,
                                           previousClose |-> pc])
           /\ wsRef' = Len(sockets) + 1
           /\ cleanupWs' = Len(sockets) + 1

\* the effect that calls fetchPreviousClose for the render with interval iv;
\* a call ends "failed" (caught and logged), "empty" (no usable close in the
\* rows) or "done" (setPreviousClose called)
BaselineEffect(iv) ==
  baselineRequests' =
    Append(baselineRequests, [interval |-> iv, status |-> "pending", data |-> <<>>])

\* the call of fetchHistoricalData for the render with interval iv and
\* previousClose pc, up to its first await
NewHistoryRequest(iv, pc) ==
  LET config == getTimeConfig(iv, now)
  IN  [interval |-> iv, previousClose |-> pc,
       startTime |-> config.startTime, endTime |-> config.endTime,
       intervalMs |-> config.intervalMs,
       currentStartTime |-> config.startTime, allData |-> <<>>,
       requests |-> IF config.startTime < config.endTime THEN 1 ELSE 0,
       status |-> IF config.startTime < config.endTime THEN "pending" ELSE "done"]

\* a call that has returned keeps its interval, its previousClose, how it
\* ended and how many page requests it made; its locals (the window, the
\* cursor and the rows fetched) are gone
Settled(request) ==
  IF request.status = "pending" THEN request
  ELSE [request EXCEPT !.startTime = 0, !.currentStartTime = 0, !.endTime = 0,
                       !.allData = <<>>]

\* the locals of a call of fetchHistoricalData at the end of its batch loop
Fetched(request, id) ==
  [id |-> id, rows |-> request.allData, startTime |-> request.startTime,
   endTime |-> request.endTime, intervalMs |-> request.intervalMs,
   currentStartTime |-> request.currentStartTime, requests |-> request.requests]

\* the effect that calls fetchHistoricalData; cd is the chartData it starts from
HistoryEffect(iv, pc, cd) ==
  LET request == NewHistoryRequest(iv, pc)
  IN  /\ historyRequests' = Append(historyRequests, Settled(request))
      /\ chartData' = IF request.status = "done"
                      THEN BuiltChartData(request, Len(historyRequests) + 1)
                      ELSE cd
      /\ fetched' = IF request.status = "done"
                    THEN Fetched(request, Len(historyRequests) + 1)
                    ELSE fetched

(***************************************************************************)
(* Actions                                                                 *)
(*                                                                         *)
(* React drops the state updates of a component that is no longer mounted, *)
(* so the calls still in flight at the unmount are not followed further.   *)
(***************************************************************************)
\* what an async function returns: a Promise, which is none of the intervals
Promise == "[object Promise]"

\* basicStateReducer of useState: an action that is a function is called on
\* the state and its result is the new state
basicStateReducer(state, action) ==
  IF action.isFunction THEN Promise ELSE action.value

RECURSIVE ApplyUpdates(_, _)
\* the state after the queued updates of one render, applied in order
ApplyUpdates(state, queue) ==
  IF queue = <<>> THEN state
  ELSE ApplyUpdates(basicStateReducer(state, Head(queue)), Tail(queue))

\* the calls of the interval state's setter in the mount effects without
\* the last one, setInterval('1m')
MountUpdatesPollersOnly ==
  <<[isFunction |-> TRUE, value |-> "fetch24hStats"],
    [isFunction |-> TRUE, value |-> "fetchFastPrice"]>>

\* the calls of the interval state's setter in the mount effects, in order:
\* setInterval(fetch24hStats, 10000) and setInterval(fetchFastPrice, 1000)
\* (setInterval is the setter of useState('1m') in the component, not the
\* window's timer function), then setInterval('1m')
MountUpdates ==
  <<[isFunction |-> TRUE, value |-> "fetch24hStats"],
    [isFunction |-> TRUE, value |-> "fetchFastPrice"],
    [isFunction |-> FALSE, value |-> "1m"]>>

\* the pollers' effect: fetch24hStats is called, then both functions are
\* passed to the state setter, which calls each once as an updater; no timer
\* is registered, and the cleanup's clearInterval(undefined) clears none
PollersEffect ==
  /\ polls' = polls \o <<[fn |-> "fetch24hStats", status |-> "pending"]>>
                    \o [k \in 1..Len(SelectSeq(MountUpdates, LAMBDA u : u.isFunction)) |->
                          [fn |-> SelectSeq(MountUpdates, LAMBDA u : u.isFunction)[k].value,
                           status |-> "pending"]]
  /\ timers' = timers

\* the first render's effects; their state updates are applied in one render,
\* whose effects see the interval they saw before
Mount ==
  /\ phase = "created"
  /\ phase' = "mounted"
  /\ BaselineEffect(interval)
  /\ PollersEffect
  /\ HistoryEffect(interval, previousClose, chartData)
  /\ WebSocketEffect(interval, previousClose)
  /\ isComponentReady' = TRUE
  /\ interval' = ApplyUpdates(interval, MountUpdates)
  /\ UNCHANGED <<now, previousClose, yesterdayClose, currentPrice, priceChange24h,
                 baselineFor, lastMessage, switches, messages, responses>>

\* onClick={() => setInterval(iv)} of one of the six buttons
SelectInterval(iv) ==
  /\ phase = "mounted"
  /\ UNCHANGED pollerVars
  /\ iv # interval
  /\ interval' = iv
  /\ switches' = switches + 1
  /\ BaselineEffect(iv)
  /\ HistoryEffect(iv, previousClose, chartData)
  /\ WebSocketEffect(iv, previousClose)
  /\ UNCHANGED <<phase, now, previousClose, yesterdayClose, currentPrice,
                 baselineFor, lastMessage, messages, responses>>

\* previousClosePrice of fetchPreviousClose for the response rows data
\* previousClosePrice that reads the last row for Today
previousClosePriceLastRow(iv, data) ==
  IF iv = "1m"
  THEN (IF Len(data) >= 1 /\ data[Len(data)].c # ""
        THEN parseFloat(data[Len(data)].c) ELSE Null)
  ELSE (IF Len(data) >= 1 /\ data[1].c # ""
        THEN parseFloat(data[1].c) ELSE Null)

previousClosePrice(iv, data) ==
  IF iv = "1m"
  THEN (IF Len(data) >= 2 /\ data[Len(data) - 1].c # ""
        THEN parseFloat(data[Len(data) - 1].c) ELSE Null)
  ELSE (IF Len(data) >= 1 /\ data[1].c # ""
        THEN parseFloat(data[1].c) ELSE Null)

\* a baseline query fails: !response.ok or a network error, caught and logged
BaselineFails(id) ==
  /\ phase = "mounted"
  /\ UNCHANGED pollerVars
  /\ id \in DOMAIN baselineRequests
  /\ baselineRequests[id].status = "pending"
  /\ baselineRequests' = [baselineRequests EXCEPT ![id].status = "failed"]
  /\ responses' = responses + 1
  /\ UNCHANGED fetched
  /\ UNCHANGED <<phase, now, interval, previousClose, yesterdayClose, currentPrice,
                 chartData, historyRequests, sockets, wsRef, cleanupWs,
                 baselineFor, lastMessage, switches, messages>>

\* a baseline query is answered with rows data
BaselineResponds(id, data) ==
  /\ phase = "mounted"
  /\ UNCHANGED pollerVars
  /\ id \in DOMAIN baselineRequests
  /\ baselineRequests[id].status = "pending"
  /\ baselineRequests' =
       [baselineRequests EXCEPT ![id].status =
          IF Truthy(previousClosePrice(baselineRequests[id].interval, data))
          THEN "done" ELSE "empty",
                                ![id].data = data]
  /\ responses' = responses + 1
  /\ LET price == previousClosePrice(baselineRequests[id].interval, data)
     IN  IF Truthy(price)
         THEN /\ previousClose' = price
              /\ yesterdayClose' = IF baselineRequests[id].interval = "1m"
                                   THEN price ELSE yesterdayClose
              /\ baselineFor' = baselineRequests[id].interval
              /\ IF price # previousClose
                 THEN /\ HistoryEffect(interval, price, chartData)
                      /\ WebSocketEffect(interval, price)
                 ELSE UNCHANGED <<chartData, fetched, historyRequests, sockets,
                                  wsRef, cleanupWs>>
         ELSE UNCHANGED <<previousClose, yesterdayClose, baselineFor, chartData,
                          fetched, historyRequests, sockets, wsRef, cleanupWs>>
  /\ UNCHANGED <<phase, now, interval, currentPrice, lastMessage, switches,
                 messages>>

\* HistoryFails with a catch that builds the Series from the pages fetched so far
HistoryFailsBuildsPartial(id) ==
  /\ phase = "mounted"
  /\ UNCHANGED pollerVars
  /\ id \in DOMAIN historyRequests
  /\ historyRequests[id].status = "pending"
  /\ historyRequests' =
       [historyRequests EXCEPT ![id] = Settled([@ EXCEPT !.status = "failed"])]
  /\ chartData' = BuiltChartData(historyRequests[id], id)
  /\ responses' = responses + 1
  /\ UNCHANGED <<phase, now, interval, previousClose, yesterdayClose, currentPrice,
                 baselineRequests, sockets, wsRef, cleanupWs,
                 baselineFor, lastMessage, fetched, switches, messages>>

\* a page request of a historical fetch fails: !response.ok or a network
\* error; the throw leaves the loop and is caught and logged
HistoryFails(id) ==
  /\ phase = "mounted"
  /\ UNCHANGED pollerVars
  /\ id \in DOMAIN historyRequests
  /\ historyRequests[id].status = "pending"
  /\ historyRequests' =
       [historyRequests EXCEPT ![id] = Settled([@ EXCEPT !.status = "failed"])]
  /\ responses' = responses + 1
  /\ UNCHANGED fetched
  /\ UNCHANGED <<phase, now, interval, previousClose, yesterdayClose, currentPrice,
                 chartData, baselineRequests, sockets, wsRef, cleanupWs,
                 baselineFor, lastMessage, switches, messages>>

\* Math.min(currentStartTime + (batchSize * intervalMs), endTime)
batchEndTime(request) ==
  Min(request.currentStartTime + batchSize * request.intervalMs, request.endTime)

\* NextBatch with "currentStartTime = batchData[batchData.length - 1][0]"
NextBatchSameCursor(request, batchData) ==
  IF Len(batchData) = 0
  THEN [request EXCEPT !.status = "done"]
  ELSE LET next == batchData[Len(batchData)].t
       IN  [request EXCEPT !.allData = request.allData \o batchData,
                           !.currentStartTime = next,
                           !.requests = IF next < request.endTime
                                        THEN request.requests + 1
                                        ELSE request.requests,
                           !.status = IF next < request.endTime
                                      THEN "pending" ELSE "done"]

\* NextBatch in a loop "while (true)": only an empty page ends it
NextBatchUnbounded(request, batchData) ==
  IF Len(batchData) = 0
  THEN [request EXCEPT !.status = "done"]
  ELSE [request EXCEPT !.allData = request.allData \o batchData,
                       !.currentStartTime =
                         batchData[Len(batchData)].t + request.intervalMs,
                       !.requests = request.requests + 1]

\* NextBatch in a loop "while (currentStartTime + batchSize * intervalMs < endTime)"
NextBatchStopsEarly(request, batchData) ==
  IF Len(batchData) = 0
  THEN [request EXCEPT !.status = "done"]
  ELSE LET next == batchData[Len(batchData)].t + request.intervalMs
           more == next + batchSize * request.intervalMs < request.endTime
       IN  [request EXCEPT !.allData = request.allData \o batchData,
                           !.currentStartTime = next,
                           !.requests = IF more THEN request.requests + 1
                                        ELSE request.requests,
                           !.status = IF more THEN "pending" ELSE "done"]

\* one turn of the batch loop on the page batchData
NextBatch(request, batchData) ==
  IF Len(batchData) = 0
  THEN [request EXCEPT !.status = "done"]
  ELSE LET next == batchData[Len(batchData)].t + request.intervalMs
       IN  [request EXCEPT !.allData = request.allData \o batchData,
                           !.currentStartTime = next,
                           !.requests = IF next < request.endTime
                                        THEN request.requests + 1
                                        ELSE request.requests,
                           !.status = IF next < request.endTime
                                      THEN "pending" ELSE "done"]

\* a page request of a historical fetch is answered with batchData; when the
\* loop ends the series is built and passed to setChartData
HistoryResponds(id, batchData) ==
  /\ phase = "mounted"
  /\ UNCHANGED pollerVars
  /\ id \in DOMAIN historyRequests
  /\ historyRequests[id].status = "pending"
  /\ LET request == NextBatch(historyRequests[id], batchData)
     IN  /\ historyRequests' = [historyRequests EXCEPT ![id] = Settled(request)]
         /\ chartData' = IF request.status = "done"
                         THEN BuiltChartData(request, id)
                         ELSE chartData
         /\ fetched' = IF request.status = "done"
                       THEN Fetched(request, id)
                       ELSE fetched
  /\ responses' = responses + 1
  /\ UNCHANGED <<phase, now, interval, previousClose, yesterdayClose, currentPrice,
                 baselineRequests, sockets, wsRef, cleanupWs, baselineFor,
                 lastMessage, switches, messages>>

\* ws.onmessage of the open socket id for a message whose k is kline
Message(id, kline) ==
  /\ phase = "mounted"
  /\ UNCHANGED pollerVars
  /\ id \in DOMAIN sockets
  /\ sockets[id].open
  /\ messages' = messages + 1
  /\ currentPrice' = parseFloat(kline.c)
  /\ chartData' = LiveMerge(chartData, kline, sockets[id].previousClose)
  /\ lastMessage' = [t |-> kline.t, c |-> kline.c,
                     timeIndex |-> indexOf(chartData.labels,
                         TimeLabel(getHours(kline.t), getMinutes(kline.t))),
                     builtFor |-> chartData.builtFor]
  /\ UNCHANGED <<phase, now, interval, previousClose, yesterdayClose,
                 baselineRequests, historyRequests, sockets, wsRef, cleanupWs,
                 baselineFor, fetched, switches, responses>>

\* the component is removed: the WebSocket effect's cleanup runs
Unmount ==
  /\ phase = "mounted"
  /\ UNCHANGED pollerVars
  /\ phase' = "unmounted"
  /\ sockets' = CloseSocket(sockets, cleanupWs)
  /\ cleanupWs' = 0
  /\ UNCHANGED <<now, interval, previousClose, yesterdayClose, currentPrice,
                 chartData, baselineRequests, historyRequests, wsRef,
                 baselineFor, lastMessage, fetched, switches, messages, responses>>

\* the events of the environment that have happened
events == switches + responses + messages

\* the user presses one of the interval buttons
Select == events < MaxEvents /\ \E iv \in Selectable : SelectInterval(iv)

\* the exchange settles a baseline query
BaselineAnswer ==
  /\ events < MaxEvents
  /\ \E id \in DOMAIN baselineRequests :
    \/ BaselineFails(id)
    \/ \E data \in BaselineRows(baselineRequests[id].interval) :
         BaselineResponds(id, data)

\* the exchange settles a page request of a historical fetch
HistoryAnswer ==
  /\ events < MaxEvents
  /\ \E id \in DOMAIN historyRequests :
    \/ HistoryFails(id)
    \/ \E batchData \in Pages(BucketTimes(now, historyRequests[id].intervalMs),
                              historyRequests[id].currentStartTime,
                              batchEndTime(historyRequests[id])) :
         HistoryResponds(id, batchData)

\* the stream delivers a message to an open socket; the exchange sends the
\* buckets in the order of their open times
Deliver ==
  /\ events < MaxEvents
  /\ \E id \in DOMAIN sockets, kline \in LiveUpdates(now) :
       kline.t >= lastMessage.t /\ Message(id, kline)

Next ==
  \/ Mount
  \/ Select
  \/ BaselineAnswer
  \/ HistoryAnswer
  \/ Deliver
  \/ Unmount

Spec == Init /\ [][Next]_vars

(***************************************************************************)
(* The pollers                                                             *)
(***************************************************************************)
\* the field a poll reads from the body of its response (data.price or
\* data.priceChangePercent), as the string parseFloat makes of it: a decimal
\* string, or "undefined" when the body has no such field
PollFields(fn) ==
  IF fn = "fetchFastPrice" THEN PriceStrings \cup {"undefined"}
  ELSE {"2.00", "undefined"}

\* a poll fails: !response.ok, a network error or a body that is no JSON,
\* caught and logged
PollFails(id) ==
  /\ phase = "mounted"
  /\ id \in DOMAIN polls
  /\ polls[id].status = "pending"
  /\ polls' = [polls EXCEPT ![id].status = "failed"]
  /\ responses' = responses + 1
  /\ UNCHANGED <<phase, now, interval, previousClose, yesterdayClose, currentPrice,
                 chartData, baselineRequests, historyRequests, sockets, wsRef,
                 cleanupWs, baselineFor, lastMessage, fetched, switches, messages,
                 isComponentReady, priceChange24h, timers>>

\* a poll is answered with a JSON body whose field reads field
PollResponds(id, field) ==
  /\ phase = "mounted"
  /\ id \in DOMAIN polls
  /\ polls[id].status = "pending"
  /\ polls' = [polls EXCEPT ![id].status =
                 IF field = "undefined" THEN "unexpected" ELSE "done"]
  /\ responses' = responses + 1
  /\ IF polls[id].fn = "fetchFastPrice"
     THEN currentPrice' = parseFloat(field) /\ UNCHANGED priceChange24h
     ELSE priceChange24h' = parseFloat(field) /\ UNCHANGED currentPrice
  /\ UNCHANGED <<phase, now, interval, previousClose, yesterdayClose,
                 chartData, baselineRequests, historyRequests, sockets, wsRef,
                 cleanupWs, baselineFor, lastMessage, fetched, switches, messages,
                 isComponentReady, timers>>

\* the exchange settles a poll
PollAnswer ==
  /\ events < MaxEvents
  /\ \E id \in DOMAIN polls :
       \/ PollFails(id)
       \/ \E field \in PollFields(polls[id].fn) : PollResponds(id, field)

NextPollers ==
  \/ Mount
  \/ Select
  \/ PollAnswer
  \/ Deliver
  \/ Unmount

\* the component with its pollers and its stream, the REST requests of the
\* chart left unanswered
SpecPollers == Init /\ [][NextPollers]_vars

(***************************************************************************)
(* The historical fetch followed page by page                              *)
(*                                                                         *)
(* One call of fetchHistoricalData per behaviour, for each of the six      *)
(* intervals, against an exchange that holds every bucket up to `now`.     *)
(***************************************************************************)
\* Date.now() at the start of the fetch: 2025-03-02 00:02:30 (three candles
\* of the day exist), 2025-03-02 23:59:30 (the full day of 1440 exists) and
\* 2025-01-01 00:00:00, the first instant of a day and of a year
FetchInstants ==
  {(366 + 31 + 28 + 1) * SecondsPerDay + 2 * 60 + 30,
   (366 + 31 + 28 + 1) * SecondsPerDay + 23 * 3600 + 59 * 60 + 30,
   YearStart(EpochYear + 1)}

\* the close the exchange reports for the bucket opened at t
CloseOf(t, ms) == IF (t \div ms) % 2 = 0 THEN "90.00" ELSE "110.00"

Candle(t, ms) == [t |-> t, c |-> CloseOf(t, ms)]

\* the open time of the first bucket of granularity ms opened at or after t
FirstBucket(t, ms) == t + ((ms - (t % ms)) % ms)

\* the number of buckets opened in [from, to]
BucketCount(from, to, ms) ==
  IF to < FirstBucket(from, ms) THEN 0
  ELSE (to - FirstBucket(from, ms)) \div ms + 1

\* the answer of the klines endpoint to startTime=from&endTime=to&limit=limit:
\* the first limit buckets opened in [from, to], in ascending order
FullPage(from, to, ms, limit) ==
  [k \in 1..Min(limit, BucketCount(from, to, ms)) |->
     Candle(FirstBucket(from, ms) + (k - 1) * ms, ms)]

\* the window of the example of two and a half pages of hourly buckets: no
\* window of getTimeConfig is that long (Today's has 1440 buckets). It ends
\* now and starts one second after the bucket width times their number
\* before, so that it holds that many buckets at every instant.
ExampleBuckets == 2 * batchSize + batchSize \div 2

ExampleRequest ==
  [interval |-> "1w", previousClose |-> Null,
   startTime |-> now - ExampleBuckets * 3600 + 1, endTime |-> now,
   intervalMs |-> 3600,
   currentStartTime |-> now - ExampleBuckets * 3600 + 1, allData |-> <<>>,
   requests |-> 1, status |-> "pending"]

IsExample(window) ==
  window.endTime - window.startTime = ExampleBuckets * window.intervalMs - 1

\* the pages the exchange may answer the pending page request of a fetch
\* with: the full answer, or no row, or fewer rows of the requested range
\* (the last one, the first and the last, or as first page the first alone);
\* the example's exchange always gives the full answer
FetchPages(request) ==
  LET from == request.currentStartTime
      to == Min(batchEndTime(request), now)
      ms == request.intervalMs
      n == BucketCount(from, to, ms)
      first == Candle(FirstBucket(from, ms), ms)
      last == Candle(FirstBucket(from, ms) + (n - 1) * ms, ms)
  IN  IF IsExample(request) THEN {FullPage(from, to, ms, batchSize)}
      ELSE {<<>>, FullPage(from, to, ms, batchSize)}
           \cup (IF n >= 1 THEN {<<last>>} ELSE {})
           \cup (IF n >= 2 THEN {<<first, last>>} ELSE {})
           \cup (IF n >= 2 /\ request.allData = <<>> THEN {<<first>>} ELSE {})

\* the fetches followed: the one each interval starts, and the example
FetchRequests ==
  {NewHistoryRequest(iv, Null) : iv \in Intervals} \cup {ExampleRequest}

\* Today's fetch has just been started by the mount; the fetch of another
\* interval by its selection, after both requests of the mount have failed.
\* A fetch whose window is empty has made no request and has built already.
InitFetch ==
  /\ phase = "mounted"
  /\ now \in FetchInstants
  /\ \E request \in FetchRequests :
       /\ interval = request.interval
       /\ historyRequests =
            IF request.interval = "1m" THEN <<Settled(request)>>
            ELSE <<Settled([NewHistoryRequest("1m", Null) EXCEPT !.status = "failed"]),
                   Settled(request)>>
       /\ chartData = IF request.status = "done"
                      THEN BuiltChartData(request, Len(historyRequests))
                      ELSE InitialChartData
       /\ fetched = IF request.status = "done"
                    THEN Fetched(request, Len(historyRequests))
                    ELSE NoFetch
  /\ baselineRequests =
       IF interval = "1m"
       THEN <<[interval |-> "1m", status |-> "pending", data |-> <<>>]>>
       ELSE <<[interval |-> "1m", status |-> "failed", data |-> <<>>],
              [interval |-> interval, status |-> "pending", data |-> <<>>]>>
  /\ sockets = <<[open |-> interval = "1m", interval |-> "1m", previousClose |-> Null]>>
  /\ wsRef = 1
  /\ cleanupWs = IF interval = "1m" THEN 1 ELSE 0
  /\ previousClose = Null
  /\ yesterdayClose = Null
  /\ currentPrice = Null
  /\ baselineFor = "none"
  /\ lastMessage = NoMessage
  /\ switches = (IF interval = "1m" THEN 0 ELSE 1)
  /\ messages = 0
  /\ responses = (IF interval = "1m" THEN 0 ELSE 2)
  /\ isComponentReady = TRUE
  /\ priceChange24h = Null
  /\ polls = <<[fn |-> "fetch24hStats", status |-> "pending"],
               [fn |-> "fetch24hStats", status |-> "pending"],
               [fn |-> "fetchFastPrice", status |-> "pending"]>>
  /\ timers = {}

\* the exchange answers the pending page request of a fetch
FetchAnswer ==
  \E id \in DOMAIN historyRequests :
    \E batchData \in FetchPages(historyRequests[id]) : HistoryResponds(id, batchData)

\* the pending page request of a fetch fails
FetchFailure == \E id \in DOMAIN historyRequests : HistoryFails(id)

NextFetch == FetchAnswer \/ FetchFailure

SpecFetch == InitFetch /\ [][NextFetch]_vars


(***************************************************************************)
(* Properties                                                              *)
(***************************************************************************)
\* the sockets that are open
OpenSockets == {id \in DOMAIN sockets : sockets[id].open}

\* the index whose pointRadius is not zero in the dataset ds, 0 when there is none
MarkerIndex(ds) ==
  CASE ds.closures = "build" -> findLastIndex(ds.data)
    [] ds.closures = "live" -> ds.timeIndex
    [] OTHER -> 0

\* the HH:MM label of the bucket of the message delivered by the step
DeliveredLabel == TimeLabel(getHours(lastMessage'.t), getMinutes(lastMessage'.t))

\* the step delivers a stream message
IsDelivery == messages' = messages + 1

\* C1: a step that replaces the Series by a build does so with a build made
\* from the candles requested under the interval selected at that step; the
\* response of a fetch started under a previous interval never writes it.
C1_StaleHistoryDiscarded ==
  [][(chartData' # chartData /\ chartData'.closures = "build")
       => chartData'.builtFor = interval']_vars

\* C2: a step that sets previousClose is the response of the baseline query
\* of the interval selected at that step, never of a previous interval's query.
C2_StaleBaselineDiscarded ==
  [][previousClose' # previousClose => baselineFor' = interval']_vars

\* C3: no carryover across intervals: switching the Interval discards the
\* Series and the Baseline, so that right after the switch a present Baseline
\* was resolved for the newly selected interval and a non-empty Series was
\* built for it.
C3_NoCarryover ==
  [][interval' # interval =>
       /\ previousClose' # Null => baselineFor' = interval'
       /\ Len(chartData'.labels) > 0 => chartData'.builtFor = interval']_vars

\* C4: at most one streaming subscription is open at any time.
C4_AtMostOneOpen == \A a \in OpenSockets, b \in OpenSockets : a = b

\* C4 witness: the effect has run again and opened a second socket
C4_Reopened == Len(sockets) >= 2 /\ sockets[Len(sockets)].open

\* C5: a subscription is open exactly while the component is mounted and
\* the Interval is Today.
C5_SubscribedIffToday ==
  (OpenSockets # {}) <=> (phase = "mounted" /\ interval = "1m")

\* C5 witness: Today has been left and selected again, and is subscribed
C5_TodayAgain == switches >= 2 /\ interval = "1m" /\ OpenSockets # {}

\* C6 as claimed: while Today stays the Interval no event closes or re-opens
\* the subscription.
C6_OneSocketPerActivation ==
  [][(phase = "mounted" /\ phase' = "mounted" /\ interval = "1m" /\ interval' = "1m")
       => sockets' = sockets]_vars

\* C6 amended: while Today stays the Interval the subscription is left alone
\* by every step that keeps previousClose, and a step that changes
\* previousClose closes it and opens exactly one fresh subscription; the step
\* that makes Today the Interval opens exactly one.
C6_OneSocketPerBaseline ==
  [][(phase' = "mounted" /\ interval' = "1m")
       => IF phase = "mounted" /\ interval = "1m" /\ previousClose' = previousClose
          THEN sockets' = sockets
          ELSE /\ Len(sockets') = Len(sockets) + 1
               /\ \A id \in DOMAIN sockets' :
                    sockets'[id].open <=> id = Len(sockets')]_vars

\* C6 witness: with Today selected all along, the baseline has resolved and
\* the first socket has been replaced
C6_ReopenedByBaseline ==
  /\ switches = 0 /\ interval = "1m" /\ previousClose # Null
  /\ Len(sockets) = 2 /\ ~sockets[1].open /\ sockets[2].open

\* C7: a delivered update whose HH:MM label is not among the labels leaves
\* chartData (labels, prices, colours, marker) unchanged.
C7_UnmatchedDiscarded ==
  [][(IsDelivery /\ \A k \in DOMAIN chartData.labels :
                      chartData.labels[k] # DeliveredLabel)
       => chartData' = chartData]_vars

\* C7 witness: an update has been delivered to a non-empty Series and matched
\* no label
C7_DiscardedOnSeries ==
  messages >= 1 /\ lastMessage.timeIndex = 0 /\ Len(chartData.labels) > 0

\* C8: applying an update twice in a row gives the labels and prices that
\* applying it once gives.
C8_Idempotent ==
  \A kline \in LiveUpdates(now) :
    LET once == LiveMerge(chartData, kline, previousClose)
        twice == LiveMerge(once, kline, previousClose)
    IN  twice.labels = once.labels /\ twice.data = once.data

\* C8 witness: two updates have been delivered and the last one was merged
C8_MergedTwice ==
  /\ messages >= 2 /\ lastMessage.timeIndex # 0
  /\ chartData.closures = "live"
  /\ chartData.timeIndex = lastMessage.timeIndex

\* C9: a delivered update whose label is at index i sets prices[i] to its
\* close and leaves the labels and every other price unchanged.
C9_PositionalOverwrite ==
  [][IsDelivery =>
       LET i == lastMessage'.timeIndex
       IN  /\ (\E k \in DOMAIN chartData.labels :
                 chartData.labels[k] = DeliveredLabel) => i # 0
           /\ i # 0 =>
                /\ chartData.labels[i] = DeliveredLabel
                /\ chartData'.labels = chartData.labels
                /\ Len(chartData'.data) = Len(chartData.data)
                /\ chartData'.data[i] = parseFloat(lastMessage'.c)
                /\ \A j \in DOMAIN chartData.data :
                     j # i => chartData'.data[j] = chartData.data[j]]_vars

\* C9 witness: an update has been merged next to a slot that holds a fetched price
C9_MergedBesideCandle ==
  /\ lastMessage.timeIndex # 0 /\ chartData.closures = "live"
  /\ \E j \in DOMAIN chartData.data :
       j # lastMessage.timeIndex /\ chartData.data[j] # Null

\* C10: while the Baseline is absent the line colour and the colour of the
\* marker are gray.
C10_NeutralWithoutBaseline ==
  (previousClose = Null /\ chartData.closures # "none") =>
    /\ chartData.borderColor = Gray
    /\ MarkerIndex(chartData) # 0 =>
         pointBackgroundColor(chartData, MarkerIndex(chartData)) = Gray

\* the line colour and the marker the initial build derives from the prices
\* and the baseline
DerivedBorderColor(prices, baseline) == BuildBorderColor(prices, baseline)
DerivedMarkerColor(prices, baseline) ==
  pointBackgroundColor([data |-> prices, closures |-> "build",
                        previousClose |-> baseline], findLastIndex(prices))

\* C11: when the baseline of the published dataset is present and the Series
\* has a last non-absent price p, the line colour is green exactly when
\* p > baseline and red otherwise.
C11_ColourRule ==
  LET last == findLastIndex(chartData.data)
  IN  (chartData.closures # "none" /\ chartData.previousClose # Null /\ last # 0)
        => chartData.borderColor =
             IF chartData.data[last] > chartData.previousClose THEN Green ELSE Red

\* C12: the index with a non-zero marker radius is the highest index whose
\* price is non-absent, and no index has one when no price is present
\* (the radius is evaluated at that index, at the index of the last merge, at
\* their neighbours and at both ends of the Series).
C12_SingleMarker ==
  LET last == findLastIndex(chartData.data)
      sample == {1, last - 1, last, last + 1, chartData.timeIndex - 1,
                 chartData.timeIndex, chartData.timeIndex + 1,
                 Len(chartData.data)} \cap DOMAIN chartData.data
  IN  /\ MarkerIndex(chartData) = last
      /\ \A k \in sample : (pointRadius(chartData, k) # 0) <=> (k = last)

\* C13: for every matching update, the line colour, the marker index and the
\* marker colour the live merge publishes are those the initial build derives
\* from the merged prices and the same baseline.
C13_LiveEqualsInitial ==
  \A kline \in LiveUpdates(now) :
    LET merged == LiveMerge(chartData, kline, previousClose)
    IN  indexOf(chartData.labels,
                TimeLabel(getHours(kline.t), getMinutes(kline.t))) # 0
          => /\ merged.borderColor = DerivedBorderColor(merged.data, previousClose)
             /\ MarkerIndex(merged) = findLastIndex(merged.data)
             /\ pointBackgroundColor(merged, MarkerIndex(merged))
                  = DerivedMarkerColor(merged.data, previousClose)

\* every call of fetchHistoricalData has returned, and the one started last
\* (for the current interval and previousClose) built its Series
FetchesProcessed ==
  /\ historyRequests # <<>>
  /\ \A id \in DOMAIN historyRequests : historyRequests[id].status # "pending"
  /\ historyRequests[Len(historyRequests)].status = "done"

\* C14: once the fetches started by the changes of the baseline have been
\* processed, the colours of the published build are those derived from its
\* prices and the current baseline, whatever the order of the responses.
C14_ColoursFollowBaseline ==
  (phase = "mounted" /\ FetchesProcessed /\ chartData.closures = "build")
    => /\ chartData.borderColor = DerivedBorderColor(chartData.data, previousClose)
       /\ findLastIndex(chartData.data) # 0 =>
            pointBackgroundColor(chartData, findLastIndex(chartData.data))
              = DerivedMarkerColor(chartData.data, previousClose)

\* the open times of the rows are strictly ascending
StrictlyAscending(rows) ==
  \A k \in 1..(Len(rows) - 1) : rows[k].t < rows[k + 1].t

\* C15: the rows a fetch has accumulated, and the rows a finished fetch built
\* its Series from, have strictly ascending open times, so no bucket occurs
\* twice across pages.
C15_NoDuplicateBuckets ==
  /\ StrictlyAscending(fetched.rows)
  /\ \A id \in DOMAIN historyRequests :
       StrictlyAscending(historyRequests[id].allData)

\* C15 witness: a full day fetched in two non-empty pages
C15_TwoPagesConcatenated ==
  fetched.requests = 2 /\ Len(fetched.rows) = HoursPerDay * MinutesPerHour

\* C16: every answered page request either ends the batch loop (on an empty
\* page or with the cursor at or past endTime) or moves the cursor forward and
\* leaves it before endTime, so the distance to endTime shrinks with every
\* page request and the loop stops after finitely many of them.
C16_PaginationTerminates ==
  [][\A id \in DOMAIN historyRequests :
       LET before == historyRequests[id]
           after == historyRequests'[id]
       IN  (before.status = "pending" /\ after # before) =>
             \/ after.status = "failed"
             \/ /\ after.status = "done"
                /\ fetched'.id = id
                /\ \/ fetched'.rows = before.allData
                   \/ fetched'.currentStartTime >= fetched'.endTime
             \/ /\ after.status = "pending"
                /\ after.endTime = before.endTime
                /\ before.currentStartTime < after.currentStartTime
                /\ after.currentStartTime < after.endTime]_vars

\* C16 witness: a fetch of several page requests ended by its cursor passing endTime
C16_EndedByCursor ==
  /\ fetched.id # 0 /\ fetched.requests >= 2 /\ ~IsExample(fetched)
  /\ fetched.currentStartTime >= fetched.endTime

\* C17: over the window of 2500 buckets the fetch makes exactly 3 page
\* requests and its result is the 2500 buckets of the window in order, each once.
C17_ThreePages ==
  (fetched.id # 0 /\ IsExample(fetched)) =>
    /\ fetched.requests = 3
    /\ Len(fetched.rows) = 2500
    /\ \A k \in DOMAIN fetched.rows :
         fetched.rows[k].t =
           FirstBucket(fetched.startTime, fetched.intervalMs)
             + (k - 1) * fetched.intervalMs

\* C17 witness: the fetch over the window of 2500 buckets has finished
C17_ExampleFetched ==
  fetched.id # 0 /\ IsExample(fetched) /\ Len(fetched.rows) > 2 * batchSize

\* C18: a step in which a fetch receives a page and goes on, or fails, leaves
\* chartData as it is: only a fetch whose every page request succeeded
\* publishes a Series.
C18_AllOrNothing ==
  [][\A id \in DOMAIN historyRequests :
       (/\ historyRequests[id].status = "pending"
        /\ historyRequests'[id] # historyRequests[id]
        /\ historyRequests'[id].status \in {"pending", "failed"})
         => chartData' = chartData]_vars

\* C18 witness: a fetch has failed after an earlier page of it had succeeded
C18_FailedAfterPage ==
  \E id \in DOMAIN historyRequests :
    historyRequests[id].status = "failed" /\ historyRequests[id].requests >= 2

\* C19: when the baseline query of the selected interval fails or returns no
\* usable close, the Baseline is absent afterwards; and a fetch that finishes
\* publishes its Series whatever became of the baseline query.
C19_BaselineAbsentAfterFailure ==
  [][/\ \A id \in DOMAIN baselineRequests :
          (/\ baselineRequests[id].status = "pending"
           /\ baselineRequests'[id].status \in {"failed", "empty"}
           /\ baselineRequests[id].interval = interval)
            => previousClose' = Null
     /\ \A id \in DOMAIN historyRequests :
          (/\ historyRequests[id].status = "pending"
           /\ historyRequests'[id].status = "done")
            => chartData'.builtBy = id /\ chartData'.closures = "build"]_vars

\* the decimal digit n
Digit(n) ==
  CASE n = 0 -> "0" [] n = 1 -> "1" [] n = 2 -> "2" [] n = 3 -> "3"
    [] n = 4 -> "4" [] n = 5 -> "5" [] n = 6 -> "6" [] n = 7 -> "7"
    [] n = 8 -> "8" [] n = 9 -> "9"

\* hour h and minute m written HH:MM
ClockLabel(h, m) ==
  Digit(h \div 10) \o Digit(h % 10) \o ":" \o Digit(m \div 10) \o Digit(m % 10)

\* C20: a Series built for Today has exactly 1440 labels, "00:00" to "23:59"
\* in ascending order of the minute of the day, and 1440 prices, all absent
\* when the fetch returned no candle.
C20_TodayGrid ==
  (chartData.closures = "build" /\ chartData.builtFor = "1m") =>
    /\ Len(chartData.labels) = 1440
    /\ Len(chartData.data) = 1440
    /\ \A h \in 0..23, m \in 0..59 :
         chartData.labels[60 * h + m + 1] = ClockLabel(h, m)
    /\ fetched.rows = <<>> => \A k \in DOMAIN chartData.data : chartData.data[k] = Null

\* C20 witness: Today's Series has been built from a part of the day's candles
C20_BuiltFromPartialDay ==
  /\ chartData.closures = "build" /\ chartData.builtFor = "1m"
  /\ Len(fetched.rows) > 0 /\ Len(fetched.rows) < HoursPerDay * MinutesPerHour

\* C21: in every state the Series has as many labels as prices, whatever
\* builds and live merges have made it.
C21_LabelsAlignWithPrices == Len(chartData.labels) = Len(chartData.data)

\* C21 witness: a build has been merged into by a live update
C21_BuiltAndMerged ==
  /\ chartData.closures = "live"
  /\ Len(chartData.labels) > 0
  /\ messages >= 1

\* the slot of Today's grid that the local hour and minute of t name
SlotOf(t) == getHours(t) * MinutesPerHour + getMinutes(t) + 1

\* C22: in a build for Today every slot holds the close of the first candle,
\* in fetch order, of the slot's hour and minute, and is absent when there is
\* none; so no candle fills a slot of another minute.
C22_TodaySlotValue ==
  (chartData.closures = "build" /\ chartData.builtFor = "1m") =>
    LET rows == fetched.rows
        slots == [i \in DOMAIN rows |-> SlotOf(rows[i].t)]
        filled == {slots[i] : i \in DOMAIN rows}
    IN  /\ \A k \in DOMAIN chartData.data \ filled : chartData.data[k] = Null
        /\ \A i \in DOMAIN rows :
             (\A j \in 1..(i - 1) : slots[j] # slots[i])
               => chartData.data[slots[i]] = parseFloat(rows[i].c)

\* C22 witness: Today's Series is built from candles that leave the first
\* slot of the day without one
C22_FirstSlotAbsent ==
  /\ chartData.closures = "build" /\ chartData.builtFor = "1m"
  /\ fetched.rows # <<>>
  /\ chartData.data[1] = Null

\* C23: a build for another interval than Today has one label and one price
\* per fetched candle, in fetch order; the price is the candle's close and
\* none is absent.
C23_OnePerCandle ==
  (chartData.closures = "build" /\ chartData.builtFor \in Intervals \ {"1m"}) =>
    /\ Len(chartData.labels) = Len(fetched.rows)
    /\ Len(chartData.data) = Len(fetched.rows)
    /\ \A k \in DOMAIN fetched.rows :
         /\ chartData.labels[k] = KlineLabel(chartData.builtFor, fetched.rows[k].t)
         /\ chartData.data[k] = parseFloat(fetched.rows[k].c)
         /\ chartData.data[k] # Null

\* C23 witness: a Series of another interval is built from several candles
C23_BuiltFromCandles ==
  /\ chartData.closures = "build" /\ chartData.builtFor \in Intervals \ {"1m"}
  /\ Len(fetched.rows) >= 2

\* the baseline query id of the selected interval is answered in this step
BaselineAnswered(id) ==
  /\ baselineRequests[id].status = "pending"
  /\ baselineRequests'[id].status \in {"done", "empty"}
  /\ baselineRequests[id].interval = interval

\* C24: once the query of the selected interval is answered, the Baseline of
\* Today is the close of the second-to-last row, and the Baseline of another
\* interval the close of the first row; when Today's answer has no
\* second-to-last row the Baseline is absent, or still the one an earlier
\* answer for Today has set.
C24_BaselineRowSelection ==
  [][\A id \in DOMAIN baselineRequests :
       BaselineAnswered(id) =>
         LET rows == baselineRequests'[id].data
         IN  IF interval = "1m"
             THEN IF Len(rows) >= 2
                  THEN previousClose' = parseFloat(rows[Len(rows) - 1].c)
                  ELSE previousClose' = Null \/ baselineFor' = "1m"
             ELSE Len(rows) >= 1 => previousClose' = parseFloat(rows[1].c)]_vars

\* C25: for every interval the window computed at the instant of the fetch
\* starts before it ends, and its bucket is longer than nothing.
C25_WindowWellFormed ==
  \A iv \in Intervals :
    /\ getTimeConfig(iv, now).startTime < getTimeConfig(iv, now).endTime
    /\ getTimeConfig(iv, now).intervalMs > 0

\* the functions the component polls with
Pollers == {"fetch24hStats", "fetchFastPrice"}

\* C26: from activation until shutdown both pollers are scheduled on their
\* period, whatever the Interval, and after shutdown neither is.
C26_PollersScheduled ==
  /\ phase = "mounted" => Pollers \subseteq timers
  /\ phase = "unmounted" => timers = {}

\* C27: a poll that ends in a failure or in a response of unexpected shape
\* leaves the current price and the 24h change as they were.
C27_FailedPollKeepsValue ==
  [][\A id \in DOMAIN polls :
       (polls[id].status = "pending" /\ polls'[id].status \in {"failed", "unexpected"})
         => currentPrice' = currentPrice /\ priceChange24h' = priceChange24h]_vars

\* C28: a build never replaces the Series built by a fetch of the same
\* interval that was started later, under another Baseline.
C28_AppliedInRequestOrder ==
  [][(/\ chartData' # chartData
      /\ chartData'.closures = "build"
      /\ chartData.builtBy # 0
      /\ chartData'.builtFor = chartData.builtFor
      /\ historyRequests[chartData'.builtBy].previousClose
           # historyRequests[chartData.builtBy].previousClose)
       => chartData'.builtBy >= chartData.builtBy]_vars

\* C29: the Interval is always one of the six values, and a step changes it
\* only if it is a selection by the user.
C29_IntervalBySelectionOnly ==
  [][/\ interval \in Intervals
     /\ interval' \in Intervals
     /\ interval' # interval => switches' = switches + 1]_vars

\* C29 witness: the pollers have been started, the user has selected another
\* interval, a fetch has been answered and a live update delivered
C29_EveryKindOfStep ==
  /\ Len(polls) >= 3
  /\ switches >= 1
  /\ responses >= 1
  /\ messages >= 1
  /\ interval # "1m"

\* C30: a live update delivered while the Series is one built for another
\* interval than Today leaves the Series as it is.
C30_LiveUpdateDiscarded ==
  [][(IsDelivery /\ chartData.builtFor \in Intervals \ {"1m"})
       => chartData' = chartData]_vars

\* C30 witness: a live update has met a Series with labels that was built for
\* another interval than Today
C30_MetForeignSeries ==
  /\ lastMessage.builtFor \in Intervals \ {"1m"}
  /\ chartData.builtFor = lastMessage.builtFor
  /\ Len(chartData.labels) > 0

====
